---- MODULE Spec2Model ----
(***************************************************************************)
(* Model of the in-memory todo service: the Repository (todoRepository.js),*)
(* the authentication middleware (auth.js) and the Router (todoRouter.js). *)
(*                                                                         *)
(* JavaScript values are tagged records, so that values of different JS    *)
(* types can be compared: [t |-> "string", s |-> "abc"], [t |-> "number",  *)
(* n |-> 3], ...  A task object is a record [ref, id, description]: ref is *)
(* the identity of the JS object created by the object literal in create,  *)
(* so that two references to one object (the store's array and an array    *)
(* returned by getAll) are two records with the same ref.                  *)
(***************************************************************************)
EXTENDS Integers, Sequences, FiniteSets, TLC

VARIABLES tasks, nextId, reqs, snapshot, lastOp, tick, issued, retired

vars == <<tasks, nextId, reqs, snapshot, lastOp, tick, issued, retired>>

(***************************************************************************)
(* Bounds.                                                                 *)
(***************************************************************************)
\* create is not called once the counter has passed MaxId
MaxId == 3

(***************************************************************************)
(* JavaScript values.                                                      *)
(***************************************************************************)
Undefined == [t |-> "undefined"]

Null == [t |-> "null"]

NaN == [t |-> "NaN"]

Str(s) == [t |-> "string", s |-> s]

Num(n) == [t |-> "number", n |-> n]

Bool(b) == [t |-> "boolean", b |-> b]

Arr(a) == [t |-> "array", a |-> a]

Obj(o) == [t |-> "object", o |-> o]

\* ToBoolean, as applied by the ! operator
Truthy(v) ==
  CASE v.t = "undefined" -> FALSE
    [] v.t = "null"      -> FALSE
    [] v.t = "NaN"       -> FALSE
    [] v.t = "boolean"   -> v.b
    [] v.t = "number"    -> v.n # 0
    [] v.t = "string"    -> v.s # ""
    [] OTHER             -> TRUE

\* property read v.p on a value that is neither null nor undefined
Get(v, p) ==
  CASE v.t = "object" -> IF p \in DOMAIN v.o THEN v.o[p] ELSE Undefined
    [] v.t = "string" -> IF p = "length" THEN Num(Len(v.s)) ELSE Undefined
    [] v.t = "array"  -> IF p = "length" THEN Num(Len(v.a)) ELSE Undefined
    [] OTHER          -> Undefined

\* v < k for a number k: ToNumber(v) < k, false when ToNumber(v) is NaN.
\* (Defined on the types a length can have here: no string operand.)
LessThan(v, k) ==
  CASE v.t = "number"    -> v.n < k
    [] v.t = "boolean"   -> (IF v.b THEN 1 ELSE 0) < k
    [] v.t = "null"      -> 0 < k
    [] OTHER             -> FALSE

\* task.id === id, where task.id is a number assigned from nextId
StrictEquals(taskId, v) == v.t = "number" /\ v.n = taskId

(***************************************************************************)
(* Sequence helpers (Array.prototype.findIndex / splice).                  *)
(***************************************************************************)
\* tasks.findIndex((task) => task.id === id): first match, 0 for -1
findIndex(ts, id) ==
  IF \E i \in 1..Len(ts) : StrictEquals(ts[i].id, id)
    THEN CHOOSE i \in 1..Len(ts) :
           /\ StrictEquals(ts[i].id, id)
           /\ \A j \in 1..(i - 1) : ~StrictEquals(ts[j].id, id)
    ELSE 0

\* tasks.splice(index, 1)
splice(ts, index) ==
  [i \in 1..(Len(ts) - 1) |-> IF i < index THEN ts[i] ELSE ts[i + 1]]

Range(s) == {s[i] : i \in 1..Len(s)}

\* identities of the task objects a suspended handler holds: the task that
\* create returned, or the elements of the array that getAll returned
HeldRefs(held) ==
  CASE held.t = "task"  -> {held.task.ref}
    [] held.t = "array" -> {tk.ref : tk \in Range(held.a)}
    [] OTHER            -> {}

\* identities of the task objects that are still referenced
LiveRefs ==
  {tk.ref : tk \in Range(tasks)}
    \cup (IF snapshot.t = "array" THEN {tk.ref : tk \in Range(snapshot.a)} ELSE {})
    \cup UNION {HeldRefs(reqs[r].held) : r \in DOMAIN reqs}

\* identity of a newly allocated object: the first one not in use
FreshRef ==
  CHOOSE k \in 1..(Cardinality(LiveRefs) + 1) :
    /\ k \notin LiveRefs
    /\ \A j \in 1..(k - 1) : j \in LiveRefs

(***************************************************************************)
(* Repository (todoRepository.js).  lastOp records the last call and what  *)
(* it returned, and tick flips at every call, so that a step is a call of  *)
(* the Repository exactly when it changes tick; issued is the sequence of  *)
(* ids returned by create since the last reset, retired the set of ids     *)
(* returned before the last reset.                                         *)
(***************************************************************************)
\* the call a getAll follows, in brief
Brief(op) ==
  IF op.op = "create"
    THEN [op |-> "create", description |-> op.description]
    ELSE [op |-> op.op]

\* getAll returning tasks.slice(0, -1)
getAllSlice ==
  /\ lastOp' = [op |-> "getAll", after |-> Brief(lastOp),
                ret |-> Arr(SubSeq(tasks, 1, Len(tasks) - 1))]
  /\ tick' = 1 - tick
  /\ UNCHANGED <<tasks, nextId, issued, retired>>

\* export const getAll = () => [...tasks];
getAll ==
  /\ lastOp' = [op |-> "getAll", after |-> Brief(lastOp), ret |-> Arr(tasks)]
  /\ tick' = 1 - tick
  /\ UNCHANGED <<tasks, nextId, issued, retired>>

\* create taking the id from the number of stored tasks
createIdFromLength(description) ==
  LET task == [ref |-> FreshRef, id |-> Len(tasks) + 1, description |-> description] IN
  /\ nextId <= MaxId
  /\ nextId' = nextId + 1
  /\ tasks' = Append(tasks, task)
  /\ lastOp' = [op |-> "create", description |-> description, task |-> task]
  /\ tick' = 1 - tick
  /\ issued' = Append(issued, task.id)
  /\ UNCHANGED retired

\* create with tasks.unshift(task)
createUnshift(description) ==
  LET task == [ref |-> FreshRef, id |-> nextId, description |-> description] IN
  /\ nextId <= MaxId
  /\ nextId' = nextId + 1
  /\ tasks' = <<task>> \o tasks
  /\ lastOp' = [op |-> "create", description |-> description, task |-> task]
  /\ tick' = 1 - tick
  /\ issued' = Append(issued, task.id)
  /\ UNCHANGED retired

\* const task = { id: nextId++, description }; tasks.push(task); return task;
create(description) ==
  LET task == [ref |-> FreshRef, id |-> nextId, description |-> description] IN
  /\ nextId <= MaxId
  /\ nextId' = nextId + 1
  /\ tasks' = Append(tasks, task)
  /\ lastOp' = [op |-> "create", description |-> description, task |-> task]
  /\ tick' = 1 - tick
  /\ issued' = Append(issued, task.id)
  /\ UNCHANGED retired

\* reset without nextId = 1
resetKeepsCounter ==
  /\ tasks' = <<>>
  /\ nextId' = nextId
  /\ lastOp' = [op |-> "reset"]
  /\ tick' = 1 - tick
  /\ issued' = <<>>
  /\ retired' = retired \cup Range(issued)

\* tasks = []; nextId = 1;
reset ==
  /\ tasks' = <<>>
  /\ nextId' = 1
  /\ lastOp' = [op |-> "reset"]
  /\ tick' = 1 - tick
  /\ issued' = <<>>
  /\ retired' = retired \cup Range(issued)

\* remove with tasks.pop() in place of tasks.splice(index, 1)
removeLast(id) ==
  LET index == findIndex(tasks, id) IN
  /\ IF index = 0
       THEN /\ tasks' = tasks
            /\ lastOp' = [op |-> "remove", id |-> id, deleted |-> FALSE]
       ELSE /\ tasks' = SubSeq(tasks, 1, Len(tasks) - 1)
            /\ lastOp' = [op |-> "remove", id |-> id, deleted |-> TRUE]
  /\ tick' = 1 - tick
  /\ UNCHANGED <<nextId, issued, retired>>

\* findIndex, then splice(index, 1) when found
remove(id) ==
  LET index == findIndex(tasks, id) IN
  /\ IF index = 0
       THEN /\ tasks' = tasks
            /\ lastOp' = [op |-> "remove", id |-> id, deleted |-> FALSE]
       ELSE /\ tasks' = splice(tasks, index)
            /\ lastOp' = [op |-> "remove", id |-> id, deleted |-> TRUE]
  /\ tick' = 1 - tick
  /\ UNCHANGED <<nextId, issued, retired>>

RepoVars == <<tasks, nextId, lastOp, tick, issued, retired>>

(***************************************************************************)
(* Direct calls of the Repository's exports, as the test files make them   *)
(* (beforeEach(() => todoRepo.reset())).                                   *)
(***************************************************************************)
\* descriptions passed to create by a direct caller
Descriptions == {Str("abc"), Num(42)}

\* ids passed to remove by a direct caller
RemoveIds == {Num(k) : k \in 1..(MaxId + 1)} \cup {NaN}

CallGetAll ==
  /\ getAll
  /\ UNCHANGED <<reqs, snapshot>>

CallCreate ==
  \E d \in Descriptions :
    /\ create(d)
    /\ UNCHANGED <<reqs, snapshot>>

CallRemove ==
  \E id \in RemoveIds :
    /\ remove(id)
    /\ UNCHANGED <<reqs, snapshot>>

CallReset ==
  /\ reset
  /\ UNCHANGED <<reqs, snapshot>>

(***************************************************************************)
(* A caller that keeps the array getAll returned and changes it.  The      *)
(* array is a new array ([...tasks]) whose elements are the task objects   *)
(* of the store, so a write to a field of an element is a write to the     *)
(* object with that identity, wherever it is referenced.                   *)
(***************************************************************************)
\* the value a caller assigns to the description of a task it was given
ChangedDescription == Str("changed")

\* o.description = v for the object with identity ref, seen through ts
WriteDescription(ts, ref, v) ==
  [i \in 1..Len(ts) |->
     IF ts[i].ref = ref THEN [ts[i] EXCEPT !.description = v] ELSE ts[i]]

\* const snapshot = getAll();
CallerGetAll ==
  /\ getAll
  /\ snapshot' = lastOp'.ret
  /\ UNCHANGED reqs

\* snapshot.pop();
CallerChangesArray ==
  /\ snapshot.t = "array"
  /\ snapshot.a # <<>>
  /\ snapshot' = Arr(SubSeq(snapshot.a, 1, Len(snapshot.a) - 1))
  /\ UNCHANGED <<RepoVars, reqs>>

\* snapshot[i].description = "changed";
CallerChangesTask ==
  /\ snapshot.t = "array"
  /\ \E i \in 1..Len(snapshot.a) :
       LET ref == snapshot.a[i].ref IN
       /\ snapshot.a[i].description # ChangedDescription
       /\ snapshot' = Arr(WriteDescription(snapshot.a, ref, ChangedDescription))
       /\ tasks' = WriteDescription(tasks, ref, ChangedDescription)
  /\ UNCHANGED <<nextId, lastOp, tick, issued, retired, reqs>>

(***************************************************************************)
(* parseInt(string, 10).  A string is a sequence of one-character strings. *)
(***************************************************************************)
DigitChars == <<"0", "1", "2", "3", "4", "5", "6", "7", "8", "9">>

IsDigit(c) == \E k \in 1..10 : DigitChars[k] = c

DigitValue(c) == (CHOOSE k \in 1..10 : DigitChars[k] = c) - 1

RECURSIVE SkipWhitespace(_)
SkipWhitespace(s) ==
  IF s # <<>> /\ Head(s) = " " THEN SkipWhitespace(Tail(s)) ELSE s

RECURSIVE DigitPrefix(_)
DigitPrefix(s) ==
  IF s # <<>> /\ IsDigit(Head(s))
    THEN <<Head(s)>> \o DigitPrefix(Tail(s))
    ELSE <<>>

RECURSIVE DecimalValue(_)
DecimalValue(ds) ==
  IF ds = <<>>
    THEN 0
    ELSE 10 * DecimalValue(SubSeq(ds, 1, Len(ds) - 1)) + DigitValue(ds[Len(ds)])

\* leading whitespace is skipped, a sign is read, then the longest prefix of
\* digits is converted; NaN when there is no digit
parseInt(s) ==
  LET t      == SkipWhitespace(s)
      signed == t # <<>> /\ Head(t) \in {"+", "-"}
      sign   == IF t # <<>> /\ Head(t) = "-" THEN -1 ELSE 1
      ds     == DigitPrefix(IF signed THEN Tail(t) ELSE t)
  IN  IF ds = <<>> THEN NaN ELSE Num(sign * DecimalValue(ds))

(***************************************************************************)
(* HTTP requests.  reqs[r] is a request in flight: pc is the position of   *)
(* its middleware chain ("verify": jwt.verify has been called and its      *)
(* callback has not run; "await": the route handler is suspended at its    *)
(* await), held the value the handler awaits, stages the stages the        *)
(* request has entered, status and json the response.                      *)
(***************************************************************************)
\* the token that jwt.sign produces with process.env.JWT_SECRET
SignedToken == Str("signed")

\* values of req.headers["authorization"]
Tokens == {Undefined, Str(""), Str("invalid-token"), SignedToken}

\* values of task.description in the request body
DescriptionValues ==
  { Str(""), Str("A"), Str("ab"), Str("abc"),
    Num(0), Num(42), Bool(FALSE), Null,
    Arr(<<>>), Arr(<<Num(1), Num(2)>>), Obj([length |-> Num(1)]) }

\* values of req.body after express.json()
Bodies ==
  { Obj(<<>>), Obj([task |-> Null]), Obj([task |-> Obj(<<>>)]) }
    \cup { Obj([task |-> Obj([description |-> v])]) : v \in DescriptionValues }

\* values of req.params.id
Params ==
  { <<"1">>, <<"2">>, <<"9", "9", "9">>, <<"a", "b", "c">>,
    <<"1", "a">>, <<"2", ".", "5">>, <<" ", "1">>, <<"-", "1">> }

\* a request that has been answered: the response and the stages it entered
Responded(method, token, status, json, stages) ==
  [pc |-> "done", method |-> method, token |-> token, body |-> Undefined,
   param |-> <<>>, held |-> Undefined, status |-> status, json |-> json,
   stages |-> stages]

\* jwt.verify(token, process.env.JWT_SECRET, callback): the err it passes
jwtVerify(token) == token # SignedToken

\* JSON.stringify of a task object, as res.json sends it
Serialize(task) ==
  Obj([id |-> Num(task.id), description |-> task.description])

\* auth, up to the call of jwt.verify: the request arrives at a protected
\* route, a missing token is answered 401
auth(r, method, token, body, param) ==
  /\ reqs[r].pc \in {"idle", "done"}
  /\ IF ~Truthy(token)
       THEN reqs' = [reqs EXCEPT ![r] =
              Responded(method, token, 401,
                        Obj([message |-> Str("No token provided")]),
                        <<"auth">>)]
       ELSE reqs' = [reqs EXCEPT ![r] =
              [pc |-> "verify", method |-> method, token |-> token,
               body |-> body, param |-> param, held |-> Undefined,
               status |-> 0, json |-> Undefined, stages |-> <<"auth">>]]
  /\ UNCHANGED <<RepoVars, snapshot>>

\* the handler of POST /create without the check of description.length
postCreateNoLengthCheck(r) ==
  LET task == Get(reqs[r].body, "task") IN
  IF ~Truthy(task) \/ ~Truthy(Get(task, "description"))
    THEN /\ reqs' = [reqs EXCEPT ![r] =
              Responded("POST", reqs[r].token, 400,
                        Obj([error |-> Str("Task is required")]),
                        reqs[r].stages \o <<"validation">>)]
         /\ UNCHANGED RepoVars
    ELSE /\ create(Get(task, "description"))
         /\ reqs' = [reqs EXCEPT ![r].pc = "await",
                                 ![r].held = [t |-> "task", task |-> lastOp'.task],
                                 ![r].stages = @ \o <<"validation", "repository">>]

\* the handler of POST /create, up to its await
postCreate(r) ==
  LET task == Get(reqs[r].body, "task") IN
  IF ~Truthy(task) \/ ~Truthy(Get(task, "description"))
    THEN /\ reqs' = [reqs EXCEPT ![r] =
              Responded("POST", reqs[r].token, 400,
                        Obj([error |-> Str("Task is required")]),
                        reqs[r].stages \o <<"validation">>)]
         /\ UNCHANGED RepoVars
    ELSE IF LessThan(Get(Get(task, "description"), "length"), 3)
      THEN /\ reqs' = [reqs EXCEPT ![r] =
                Responded("POST", reqs[r].token, 400,
                  Obj([error |-> Str("Description must be at least 3 characters long")]),
                  reqs[r].stages \o <<"validation">>)]
           /\ UNCHANGED RepoVars
      ELSE /\ create(Get(task, "description"))
           /\ reqs' = [reqs EXCEPT ![r].pc = "await",
                                   ![r].held = [t |-> "task", task |-> lastOp'.task],
                                   ![r].stages = @ \o <<"validation", "repository">>]

\* the handler of DELETE /:id taking every remove for a success
deleteByIdIgnoresResult(r) ==
  /\ remove(parseInt(reqs[r].param))
  /\ reqs' = [reqs EXCEPT ![r].pc = "await",
                          ![r].held = Bool(TRUE),
                          ![r].stages = @ \o <<"repository">>]

\* the handler of DELETE /:id, up to its await
deleteById(r) ==
  /\ remove(parseInt(reqs[r].param))
  /\ reqs' = [reqs EXCEPT ![r].pc = "await",
                          ![r].held = Bool(lastOp'.deleted),
                          ![r].stages = @ \o <<"repository">>]

\* the callback calling next() without looking at err
authCallbackIgnoresErr(r) ==
  /\ reqs[r].pc = "verify"
  /\ IF reqs[r].method = "POST" THEN postCreate(r) ELSE deleteById(r)
  /\ UNCHANGED snapshot

\* the callback auth passes to jwt.verify: 401 on err, otherwise next(),
\* which runs the route handler up to its await
authCallback(r) ==
  /\ reqs[r].pc = "verify"
  /\ IF jwtVerify(reqs[r].token)
       THEN /\ reqs' = [reqs EXCEPT ![r] =
                 Responded(reqs[r].method, reqs[r].token, 401,
                   Obj([message |-> Str("Failed to authenticate token")]),
                   reqs[r].stages)]
            /\ UNCHANGED RepoVars
       ELSE IF reqs[r].method = "POST" THEN postCreate(r) ELSE deleteById(r)
  /\ UNCHANGED snapshot

\* the handler of GET /, up to its await; the route has no auth
getRoot(r) ==
  /\ reqs[r].pc \in {"idle", "done"}
  /\ getAll
  /\ reqs' = [reqs EXCEPT ![r] =
       [pc |-> "await", method |-> "GET", token |-> Undefined,
        body |-> Undefined, param |-> <<>>, held |-> lastOp'.ret,
        status |-> 0, json |-> Undefined, stages |-> <<"repository">>]]
  /\ UNCHANGED snapshot

\* the rest of a route handler, after its await; the answered request keeps
\* its req.params
resume(r) ==
  /\ reqs[r].pc = "await"
  /\ LET q == reqs[r] IN
     reqs' = [reqs EXCEPT ![r] = [
       CASE q.method = "GET" ->
              Responded("GET", q.token, 200,
                Arr([i \in 1..Len(q.held.a) |-> Serialize(q.held.a[i])]), q.stages)
         [] q.method = "POST" ->
              Responded("POST", q.token, 201, Serialize(q.held.task), q.stages)
         [] q.method = "DELETE" ->
              IF q.held.b
                THEN Responded("DELETE", q.token, 204, Undefined, q.stages)
                ELSE Responded("DELETE", q.token, 404,
                       Obj([error |-> Str("Task not found")]), q.stages)
       EXCEPT !.param = q.param]]
  /\ UNCHANGED <<RepoVars, snapshot>>

\* the requests are sent one at a time, as the test files send them (each
\* await request(app) is answered before the next request is made)
Requests == {1}

ReceivePost ==
  \E r \in Requests, token \in Tokens, body \in Bodies :
    auth(r, "POST", token, body, <<>>)

ReceiveDelete ==
  \E r \in Requests, token \in Tokens, param \in Params :
    auth(r, "DELETE", token, Undefined, param)

ReceiveGet == \E r \in Requests : getRoot(r)

AuthCallback == \E r \in Requests : authCallback(r)

Resume == \E r \in Requests : resume(r)

(***************************************************************************)
(* Initial state: the module-level declarations of todoRepository.js, no   *)
(* request in flight, nothing returned to any caller yet.                  *)
(***************************************************************************)
IdleReq ==
  [pc |-> "idle", method |-> "none", token |-> Undefined, body |-> Undefined,
   param |-> <<>>, held |-> Undefined, status |-> 0, json |-> Undefined,
   stages |-> <<>>]

Init ==
  /\ tasks = <<>>
  /\ nextId = 1
  /\ reqs = [r \in Requests |-> IdleReq]
  /\ snapshot = Undefined
  /\ lastOp = [op |-> "none"]
  /\ tick = 0
  /\ issued = <<>>
  /\ retired = {}

NextRepo == CallGetAll \/ CallCreate \/ CallRemove \/ CallReset

SpecRepo == Init /\ [][NextRepo]_vars

\* requests handled by the application, with the reset the tests make
\* between them
NextHttp == ReceiveGet \/ ReceivePost \/ ReceiveDelete \/ AuthCallback \/ Resume \/ CallReset

SpecHttp == Init /\ [][NextHttp]_vars

\* the Repository with a caller that changes what getAll returned
NextCaller ==
  \/ CallerGetAll
  \/ CallCreate
  \/ CallRemove
  \/ CallReset
  \/ CallerChangesArray
  \/ CallerChangesTask

SpecCaller == Init /\ [][NextCaller]_vars

(***************************************************************************)
(* Several requests in flight at once.  Each of the NumReq requests is     *)
(* sent once, at any time, and the steps of different requests interleave: *)
(* a handler gives up control between auth and the jwt.verify callback and *)
(* at its await.  The store already holds one task, as after one           *)
(* create("abc").                                                          *)
(***************************************************************************)
\* number of requests
NumReq == 3

ConcRequests == 1..NumReq

\* bodies of the POST /create requests: a valid one and one that is
\* answered 400
ConcBodies ==
  { Obj([task |-> Obj([description |-> Str("abc")])]),
    Obj([task |-> Obj([description |-> Str("ab")])]) }

\* Authorization headers of the requests to the protected routes
ConcTokens == {SignedToken, Str("invalid-token")}

\* :id of the DELETE requests
ConcParams == { <<"1">>, <<"2">> }

\* the task the store holds when the requests are sent
FirstTask == [ref |-> 1, id |-> 1, description |-> Str("abc")]

InitConc ==
  /\ tasks = <<FirstTask>>
  /\ nextId = 2
  /\ reqs = [r \in ConcRequests |-> IdleReq]
  /\ snapshot = Undefined
  /\ lastOp = [op |-> "create", description |-> Str("abc"), task |-> FirstTask]
  /\ tick = 1
  /\ issued = <<1>>
  /\ retired = {}

ConcGet ==
  \E r \in ConcRequests :
    /\ reqs[r].pc = "idle"
    /\ getRoot(r)

ConcPost ==
  \E r \in ConcRequests, token \in ConcTokens, body \in ConcBodies :
    /\ reqs[r].pc = "idle"
    /\ auth(r, "POST", token, body, <<>>)

ConcDelete ==
  \E r \in ConcRequests, token \in ConcTokens, param \in ConcParams :
    /\ reqs[r].pc = "idle"
    /\ auth(r, "DELETE", token, Undefined, param)

ConcAuthCallback == \E r \in ConcRequests : authCallback(r)

ConcResume == \E r \in ConcRequests : resume(r)

NextConc == ConcGet \/ ConcPost \/ ConcDelete \/ ConcAuthCallback \/ ConcResume

SpecConc == InitConc /\ [][NextConc]_vars

Next == NextRepo \/ ReceiveGet \/ ReceivePost \/ ReceiveDelete \/ AuthCallback \/ Resume

Spec == Init /\ [][Next]_vars

(***************************************************************************)
(* Steps of the Repository, as the history variables show them.            *)
(***************************************************************************)
RepoCall(op) == tick' # tick /\ lastOp'.op = op

\* number of tasks of the sequence ts whose description equals d
CountDescription(ts, d) ==
  Cardinality({i \in 1..Len(ts) : ts[i].description = d})

(***************************************************************************)
(* Claims about the Repository, checked under SpecRepo.                    *)
(***************************************************************************)
\* C1: in a sequence of create, remove and getAll with no reset, the ids
\* that successive create calls return start at 1 and are strictly
\* increasing, so no id is returned twice, also after its task was removed.
C1_IdsStrictlyIncreasing ==
  /\ issued # <<>> => issued[1] = 1
  /\ \A i, j \in 1..Len(issued) : i < j => issued[i] < issued[j]

\* the tasks with ids 1 and 2 were removed and create then returned id 3
C1_Witness ==
  /\ lastOp.op = "create"
  /\ issued = <<1, 2, 3>>
  /\ Len(tasks) = 1

\* C6: remove(id) returns true exactly when a task with that id is stored;
\* then the store has one task less, the id is gone and the other tasks keep
\* their order; when it returns false the store is unchanged; the id counter
\* is unchanged in both cases.
C6_Remove ==
  [][RepoCall("remove") =>
      LET id      == lastOp'.id
          present == id.t = "number" /\ \E tk \in Range(tasks) : tk.id = id.n
      IN  /\ lastOp'.deleted = present
          /\ nextId' = nextId
          /\ IF present
               THEN /\ Len(tasks') = Len(tasks) - 1
                    /\ \A tk \in Range(tasks') : tk.id # id.n
                    /\ tasks' = SelectSeq(tasks, LAMBDA tk : tk.id # id.n)
               ELSE tasks' = tasks]_vars

\* remove(2) returned true and left the tasks 1 and 3, in that order
C6_Witness ==
  /\ lastOp.op = "remove"
  /\ lastOp.id = Num(2)
  /\ lastOp.deleted
  /\ Len(tasks) = 2
  /\ tasks[1].id = 1
  /\ tasks[2].id = 3

\* C7: after reset the store is empty, getAll returns the empty sequence and
\* the counter is 1, so the next create returns id 1; a create returns an id
\* less than or equal to an id returned earlier only when a reset came
\* between the two.
C7_Reset ==
  /\ [](lastOp.op = "reset" => tasks = <<>> /\ nextId = 1)
  /\ [][/\ (RepoCall("getAll") /\ lastOp.op = "reset") => lastOp'.ret = Arr(<<>>)
        /\ (RepoCall("create") /\ lastOp.op = "reset") => lastOp'.task.id = 1
        /\ RepoCall("create") =>
             \A y \in retired \cup Range(issued) :
               lastOp'.task.id <= y => y \notin Range(issued)]_vars

\* after a reset, create returned id 1 again while ids up to 2 had been
\* returned before the reset
C7_Witness ==
  /\ lastOp.op = "create"
  /\ lastOp.task.id = 1
  /\ retired = {1, 2}
  /\ issued = <<1>>

\* C8: no two stored tasks have the same id, the stored tasks are in strictly
\* ascending id order, as getAll returns them, and every stored id is smaller
\* than the next-id counter.
C8_StoreInvariant ==
  /\ \A i, j \in 1..Len(tasks) : i # j => tasks[i].id # tasks[j].id
  /\ \A i, j \in 1..Len(tasks) : i < j => tasks[i].id < tasks[j].id
  /\ \A i \in 1..Len(tasks) : tasks[i].id < nextId
  /\ lastOp.op = "getAll" =>
       \A i, j \in 1..Len(lastOp.ret.a) :
         i < j => lastOp.ret.a[i].id < lastOp.ret.a[j].id

\* getAll returned the tasks 2 and 3 after task 1 was removed
C8_Witness ==
  /\ lastOp.op = "getAll"
  /\ Len(lastOp.ret.a) = 2
  /\ lastOp.ret.a[1].id = 2
  /\ lastOp.ret.a[2].id = 3
  /\ nextId = 4

\* C9 as stated: create(d) followed immediately by getAll returns a sequence
\* that contains exactly one task whose description equals d.
C9_ExactlyOne ==
  (lastOp.op = "getAll" /\ lastOp.after.op = "create") =>
    CountDescription(lastOp.ret.a, lastOp.after.description) = 1

\* C9 amended: create(d) followed immediately by getAll returns a sequence
\* that contains exactly one more task whose description equals d than the
\* store held before the create, so exactly one when no stored task had the
\* description d.
C9_OneMore ==
  [][/\ RepoCall("create") =>
          LET d == lastOp'.description
          IN  /\ CountDescription(tasks', d) = CountDescription(tasks, d) + 1
              /\ (\A tk \in Range(tasks) : tk.description # d) =>
                   CountDescription(tasks', d) = 1
     /\ (RepoCall("getAll") /\ lastOp.op = "create") =>
          /\ CountDescription(lastOp'.ret.a, lastOp.description)
               = CountDescription(tasks, lastOp.description)
          /\ \E i \in 1..Len(lastOp'.ret.a) : lastOp'.ret.a[i] = lastOp.task]_vars

\* getAll, called right after a create("abc"), returned two tasks with the
\* description "abc"
C9_Witness ==
  /\ lastOp.op = "getAll"
  /\ lastOp.after = [op |-> "create", description |-> Str("abc")]
  /\ CountDescription(lastOp.ret.a, Str("abc")) = 2

(***************************************************************************)
(* Claims about the Router and the authentication middleware, checked      *)
(* under SpecHttp.                                                         *)
(***************************************************************************)
\* request r takes a step
Step(r) == reqs'[r] # reqs[r]

StoreUnchanged == tasks' = tasks /\ nextId' = nextId

Protected(method) == method \in {"POST", "DELETE"}

\* C2: a request to a protected route with no Authorization header or with
\* a token that fails verification is answered 401 and reaches neither the
\* validation nor the Repository: no step of it changes the task list or the
\* id counter, and it gets no other answer, whatever its body or :id.
C2_AuthFirst ==
  [][\A r \in Requests :
       (Step(r) /\ Protected(reqs'[r].method) /\ reqs'[r].token # SignedToken) =>
         /\ StoreUnchanged
         /\ tick' = tick
         /\ reqs'[r].pc \in {"verify", "done"}
         /\ reqs'[r].stages = <<"auth">>
         /\ reqs'[r].status = (IF reqs'[r].pc = "done" THEN 401 ELSE 0)]_vars

\* a POST /create with an invalid token was answered 401 while a task was
\* stored
C2_Witness ==
  /\ reqs[1].pc = "done"
  /\ reqs[1].method = "POST"
  /\ reqs[1].token = Str("invalid-token")
  /\ reqs[1].status = 401
  /\ Len(tasks) = 1

\* the value sent as task.description, undefined when task or it is absent
SentDescription(body) ==
  IF "task" \in DOMAIN body.o /\ body.o.task.t = "object"
       /\ "description" \in DOMAIN body.o.task.o
    THEN body.o.task.o.description
    ELSE Undefined

\* the value is non-empty and its length is at least 3
LengthAtLeast3(v) ==
  \/ v.t = "string" /\ Len(v.s) >= 3
  \/ v.t = "array" /\ Len(v.a) >= 3

\* C3: for every JSON value sent as task.description, an authenticated
\* POST /create calls Repository create and responds 201 only when the value
\* is non-empty and its length is at least 3, and responds 400 otherwise; so
\* every task that POST /create stores has such a description.
C3_DescriptionLength ==
  [][\A r \in Requests :
       (/\ Step(r)
        /\ reqs[r].pc = "verify"
        /\ reqs[r].method = "POST"
        /\ reqs[r].token = SignedToken) =>
         IF LengthAtLeast3(SentDescription(reqs[r].body))
           THEN /\ RepoCall("create")
                /\ reqs'[r].pc = "await"
           ELSE /\ reqs'[r].status = 400
                /\ tick' = tick
                /\ StoreUnchanged]_vars

\* the body fails validation: task missing or null, description missing, or
\* description shorter than 3 characters
FailsValidation(body) ==
  LET d == SentDescription(body) IN
  \/ d.t \in {"undefined", "null"}
  \/ d.t = "string" /\ Len(d.s) < 3

\* C4: an authenticated POST /create whose body fails validation responds
\* 400 with an error field and changes nothing: create is not called, the
\* task list and the id counter are unchanged.
C4_ValidationFailure ==
  [][\A r \in Requests :
       (/\ Step(r)
        /\ reqs[r].pc = "verify"
        /\ reqs[r].method = "POST"
        /\ reqs[r].token = SignedToken
        /\ FailsValidation(reqs[r].body)) =>
         /\ reqs'[r].pc = "done"
         /\ reqs'[r].status = 400
         /\ reqs'[r].json.t = "object"
         /\ "error" \in DOMAIN reqs'[r].json.o
         /\ reqs'[r].stages = <<"auth", "validation">>
         /\ tick' = tick
         /\ StoreUnchanged]_vars

\* a POST /create with a description that is too short was answered 400
\* while two tasks were stored
C4_Witness ==
  /\ reqs[1].pc = "done"
  /\ reqs[1].method = "POST"
  /\ reqs[1].status = 400
  /\ reqs[1].json = Obj([error |-> Str("Description must be at least 3 characters long")])
  /\ Len(tasks) = 2
  /\ nextId = 3

\* the path value is a decimal integer: digits, after an optional minus
WellFormedInteger(s) ==
  LET ds == IF s # <<>> /\ Head(s) = "-" THEN Tail(s) ELSE s IN
  /\ ds # <<>>
  /\ \A i \in 1..Len(ds) : IsDigit(ds[i])

\* C5: an authenticated DELETE /:id whose :id is not a well-formed decimal
\* integer, values that only begin with digits included, is a not-found: it
\* removes no task, leaves the task list and the id counter unchanged and is
\* answered 404.
C5_InvalidIdNotFound ==
  [][\A r \in Requests :
       (/\ Step(r)
        /\ reqs[r].pc = "verify"
        /\ reqs[r].method = "DELETE"
        /\ reqs[r].token = SignedToken
        /\ ~WellFormedInteger(reqs[r].param)) =>
         /\ StoreUnchanged
         /\ reqs'[r].held = Bool(FALSE)]_vars

(***************************************************************************)
(* Claim about the value getAll returns, checked under SpecCaller.         *)
(***************************************************************************)
\* C10: getAll has no side effects and returns a defensive copy: it leaves
\* the task list and the id counter unchanged, a value it returned is not
\* changed by a later create, remove or reset, and a change a caller makes to
\* the returned value, to the sequence or to a task in it, does not change
\* what the store holds.
C10_DefensiveCopy ==
  [][/\ RepoCall("getAll") => StoreUnchanged
     /\ (tick' # tick /\ lastOp'.op \in {"create", "remove", "reset"}) =>
          snapshot' = snapshot
     /\ (tick' = tick /\ snapshot' # snapshot) => StoreUnchanged]_vars

(***************************************************************************)
(* Claim about requests in flight at once, checked under SpecConc.         *)
(***************************************************************************)
\* a task as a value: its id and description, without the object identity
TaskValue(tk) == [id |-> tk.id, description |-> tk.description]

TaskValues(ts) == [i \in 1..Len(ts) |-> TaskValue(ts[i])]

\* a task as it is read back from a JSON response
ParsedTask(v) == [id |-> v.o.id.n, description |-> v.o.description]

\* the requests that have called the Repository
Callers == {r \in ConcRequests : "repository" \in Range(reqs[r].stages)}

\* the Repository call request q has made and what it got back, as q holds
\* it while suspended and as its response shows it afterwards
CallOf(q) ==
  CASE q.method = "POST" ->
         [op |-> "create",
          task |-> IF q.pc = "await" THEN TaskValue(q.held.task)
                                     ELSE ParsedTask(q.json)]
    [] q.method = "DELETE" ->
         [op |-> "remove", id |-> parseInt(q.param),
          deleted |-> IF q.pc = "await" THEN q.held.b ELSE q.status = 204]
    [] q.method = "GET" ->
         [op |-> "getAll",
          ret |-> IF q.pc = "await"
                    THEN TaskValues(q.held.a)
                    ELSE [i \in 1..Len(q.json.a) |-> ParsedTask(q.json.a[i])]]

\* the store before any of the requests
StoreBefore == [tasks |-> <<TaskValue(FirstTask)>>, next |-> 2, ok |-> TRUE]

\* one Repository call run on the store st, by the sequential meaning of
\* create, remove and getAll; ok tells whether it returns what c got
RunCall(st, c) ==
  CASE c.op = "create" ->
         [tasks |-> Append(st.tasks, [id |-> st.next, description |-> c.task.description]),
          next  |-> st.next + 1,
          ok    |-> st.ok /\ c.task.id = st.next]
    [] c.op = "remove" ->
         LET present == c.id.t = "number" /\ \E tk \in Range(st.tasks) : tk.id = c.id.n
         IN  [tasks |-> IF present
                          THEN SelectSeq(st.tasks, LAMBDA tk : tk.id # c.id.n)
                          ELSE st.tasks,
              next  |-> st.next,
              ok    |-> st.ok /\ c.deleted = present]
    [] c.op = "getAll" ->
         [tasks |-> st.tasks, next |-> st.next, ok |-> st.ok /\ c.ret = st.tasks]

\* the calls of the requests order[i], order[i + 1], ... run one after another
RECURSIVE RunInOrder(_, _, _)
RunInOrder(st, order, i) ==
  IF i > Len(order)
    THEN st
    ELSE RunInOrder(RunCall(st, CallOf(reqs[order[i]])), order, i + 1)

\* the orders in which the requests that called the Repository can be run
Orders ==
  {order \in [1..Cardinality(Callers) -> Callers] :
     \A i, j \in 1..Cardinality(Callers) : i # j => order[i] # order[j]}

\* C11: with several requests in flight, interleaving at the auth callback
\* and at each await, the ids in the 201 responses are pairwise distinct,
\* each task is removed by at most one DELETE that answers 204, and the store
\* equals the result of running the Repository calls made so far one after
\* another in some order, each call returning what its request got.
C11_AtomicCalls ==
  /\ \A r1, r2 \in ConcRequests :
       (r1 # r2 /\ reqs[r1].status = 201 /\ reqs[r2].status = 201) =>
         reqs[r1].json.o.id # reqs[r2].json.o.id
  /\ \A r1, r2 \in ConcRequests :
       (r1 # r2 /\ reqs[r1].status = 204 /\ reqs[r2].status = 204) =>
         parseInt(reqs[r1].param) # parseInt(reqs[r2].param)
  /\ \E order \in Orders :
       LET st == RunInOrder(StoreBefore, order, 1)
       IN  /\ st.ok
           /\ st.tasks = TaskValues(tasks)
           /\ st.next = nextId

\* two DELETE /1 and a POST /create are suspended at their awaits together:
\* the first DELETE removed task 1, the second found nothing
C11_Witness ==
  /\ \A r \in 1..3 : reqs[r].pc = "await"
  /\ reqs[1].method = "DELETE" /\ reqs[1].param = <<"1">> /\ reqs[1].held = Bool(TRUE)
  /\ reqs[2].method = "DELETE" /\ reqs[2].param = <<"1">> /\ reqs[2].held = Bool(FALSE)
  /\ reqs[3].method = "POST"
  /\ TaskValues(tasks) = <<[id |-> 2, description |-> Str("abc")]>>

====
